---------------------------- MODULE Spec2Model ----------------------------
(***************************************************************************)
(* PluginService (packages/lib/services/plugins/PluginService.ts): the     *)
(* manifest block extractor, the plugin loader with its version gate, the  *)
(* path resolver, the batch loop of loadAndRunPlugins and runPlugin.       *)
(*                                                                         *)
(* A JavaScript string is a sequence of symbols.  A symbol is one          *)
(* character ("a", "/", ".", " ", "\n") or one lexical unit whose inner    *)
(* characters no operation of the service looks at separately: the opening *)
(* marker, the closing marker and the members of a manifest's JSON text.   *)
(***************************************************************************)
EXTENDS Integers, Sequences, FiniteSets, TLC

VARIABLES
    appVersion_,   \* PluginService.appVersion_, set by initialize()
    plugins_,      \* PluginService.plugins_: identifier -> Plugin
    store,         \* the actions given to store_.dispatch, in order
    log,           \* the entries given to logger().info / logger().error, in order
    ran,           \* the plugins given to runner_.run, in order
    held,          \* the plugins loadPluginFromString returned to its caller
    pc,            \* where the service is: "idle" or a point of the batch loop
    pluginPaths,   \* loadAndRunPlugins: the candidate list of the current batch
    i,             \* loadAndRunPlugins: position of the for-of loop (1-based)
    inflight,      \* batch positions whose load-then-run was started and has not settled
    loadRes,       \* what the most recent load call returned or threw
    err,           \* the error the batch's try block threw, for its catch block
    outcome,       \* per candidate of the current batch, in completion order: how it ended
    callResult,    \* how the most recent public call ended: "ok" or the error it threw
    nextUid,       \* object identity of the next Plugin constructed
    work,          \* size of the input consumed so far
    bundle,        \* extraction alone: the bundle text given to parsePluginJsBundle
    extracted      \* extraction alone: what parsePluginJsBundle returned or threw

vars == << appVersion_, plugins_, store, log, ran, held, pc, pluginPaths, i, inflight,
           loadRes, err, outcome, callResult, nextUid, work, bundle, extracted >>

serviceVars == << appVersion_, plugins_, store, log, ran, held, pc, pluginPaths, i,
                  inflight, loadRes, err, outcome, callResult, nextUid, work >>

(***************************************************************************)
(* Strings                                                                 *)
(***************************************************************************)

NL == "\n"

\* The characters String.prototype.trim removes that can stand inside a line.
IsWhitespace(c) == c \in {" ", "\t", "\r"}

RECURSIVE LTrim(_)
LTrim(s) ==
    IF s # <<>> /\ IsWhitespace(Head(s)) THEN LTrim(Tail(s)) ELSE s

RECURSIVE RTrim(_)
RTrim(s) ==
    IF s # <<>> /\ IsWhitespace(s[Len(s)]) THEN RTrim(SubSeq(s, 1, Len(s) - 1)) ELSE s

\* line.trim()
Trim(s) == RTrim(LTrim(s))

\* s.split(sep) for a one-symbol separator: never empty, "" splits to [""].
RECURSIVE SplitAcc(_, _, _)
SplitAcc(s, sep, cur) ==
    IF s = <<>> THEN << cur >>
    ELSE IF Head(s) = sep THEN << cur >> \o SplitAcc(Tail(s), sep, <<>>)
    ELSE SplitAcc(Tail(s), sep, Append(cur, Head(s)))

Split(s, sep) == SplitAcc(s, sep, <<>>)

\* parts.join(sep)
RECURSIVE Join(_, _)
Join(parts, sep) ==
    IF parts = <<>> THEN <<>>
    ELSE IF Len(parts) = 1 THEN parts[1]
    ELSE parts[1] \o << sep >> \o Join(Tail(parts), sep)

\* s.indexOf(prefix) === 0
StartsWith(s, prefix) ==
    Len(s) >= Len(prefix) /\ SubSeq(s, 1, Len(prefix)) = prefix

\* s.endsWith(suffix)
EndsWith(s, suffix) ==
    Len(s) >= Len(suffix) /\ SubSeq(s, Len(s) - Len(suffix) + 1, Len(s)) = suffix

(***************************************************************************)
(* parsePluginJsBundle                                                     *)
(***************************************************************************)

OpenMarker == << "/* joplin-manifest:" >>

CloseMarker == << "*/" >>

StateStarted == 1

StateInManifest == 2

\* ScanLines with a closing marker that is passed over instead of ending the
\* loop (continue for break).
RECURSIVE ScanLinesNoBreak(_, _, _)
ScanLinesNoBreak(lines, state, manifestText) ==
    IF lines = <<>> THEN manifestText
    ELSE LET line == Trim(Head(lines)) IN
         IF state # StateInManifest
         THEN ScanLinesNoBreak(Tail(lines),
                               IF line = OpenMarker THEN StateInManifest ELSE state,
                               manifestText)
         ELSE IF StartsWith(line, CloseMarker)
              THEN ScanLinesNoBreak(Tail(lines), state, manifestText)
              ELSE ScanLinesNoBreak(Tail(lines), state, Append(manifestText, line))

\* ScanLines with a closing marker that puts the scanner back into the Started
\* state instead of ending the loop, so that a later block is read too.
RECURSIVE ScanLinesRestarts(_, _, _)
ScanLinesRestarts(lines, state, manifestText) ==
    IF lines = <<>> THEN manifestText
    ELSE LET line == Trim(Head(lines)) IN
         IF state # StateInManifest
         THEN ScanLinesRestarts(Tail(lines),
                                IF line = OpenMarker THEN StateInManifest ELSE state,
                                manifestText)
         ELSE IF StartsWith(line, CloseMarker)
              THEN ScanLinesRestarts(Tail(lines), StateStarted, manifestText)
              ELSE ScanLinesRestarts(Tail(lines), state, Append(manifestText, line))

\* One pass of the for loop over the lines still to read; `state` and the
\* accumulator `manifestText` are the loop's variables.  A closing marker ends
\* the loop (break), the end of the lines ends it too.
RECURSIVE ScanLines(_, _, _)
ScanLines(lines, state, manifestText) ==
    IF lines = <<>> THEN manifestText
    ELSE LET line == Trim(Head(lines)) IN
         IF state # StateInManifest
         THEN ScanLines(Tail(lines),
                        IF line = OpenMarker THEN StateInManifest ELSE state,
                        manifestText)
         ELSE IF StartsWith(line, CloseMarker)
              THEN manifestText
              ELSE ScanLines(Tail(lines), state, Append(manifestText, line))

NoText == << "<none>" >>

\* ParsePluginJsBundle without the test of the accumulator's length.
ParsePluginJsBundleNoCheck(jsBundleString) ==
    [ok |-> TRUE, error |-> "none", scriptText |-> jsBundleString,
     manifestText |-> Join(ScanLines(Split(jsBundleString, NL), StateStarted, <<>>), NL)]

ParsePluginJsBundle(jsBundleString) ==
    LET scriptText   == jsBundleString
        lines        == Split(scriptText, NL)
        manifestText == ScanLines(lines, StateStarted, <<>>)
    IN  IF Len(manifestText) = 0
        THEN [ok |-> FALSE, error |-> "Could not find manifest",
              scriptText |-> NoText, manifestText |-> NoText]
        ELSE [ok |-> TRUE, error |-> "none",
              scriptText |-> scriptText, manifestText |-> Join(manifestText, NL)]

(***************************************************************************)
(* path-utils, uslug, compare-versions, JSON.parse                         *)
(***************************************************************************)

IsSlash(c) == c \in {"/", "\\"}

\* rtrimSlashes(path): path.replace(/[\/\\]+$/, '')
RECURSIVE RtrimSlashes(_)
RtrimSlashes(path) ==
    IF path # <<>> /\ IsSlash(path[Len(path)])
    THEN RtrimSlashes(SubSeq(path, 1, Len(path) - 1))
    ELSE path

\* Position of the last symbol of s satisfying sep, 0 if there is none.
LastIndexOf(s, sep) ==
    LET at == {k \in 1..Len(s) : s[k] \in sep}
    IN  IF at = {} THEN 0 ELSE CHOOSE k \in at : \A m \in at : m <= k

\* basename(path): what follows the last slash.
Basename(path) == SubSeq(path, LastIndexOf(path, {"/", "\\"}) + 1, Len(path))

\* dirname(path): what precedes the last slash.
Dirname(path) == SubSeq(path, 1, LastIndexOf(path, {"/", "\\"}) - 1)

\* filename(path): the base name without its last extension.
Filename(path) ==
    LET base == Basename(path)
        dot  == LastIndexOf(base, {"."})
    IN  IF dot = 0 THEN base ELSE SubSeq(base, 1, dot - 1)

Uppers == << "A", "B", "C", "D", "E", "F", "G", "H", "I", "J", "K", "L", "M",
             "N", "O", "P", "Q", "R", "S", "T", "U", "V", "W", "X", "Y", "Z" >>

Lowers == << "a", "b", "c", "d", "e", "f", "g", "h", "i", "j", "k", "l", "m",
             "n", "o", "p", "q", "r", "s", "t", "u", "v", "w", "x", "y", "z" >>

Digits == << "0", "1", "2", "3", "4", "5", "6", "7", "8", "9" >>

Range(s) == {s[k] : k \in 1..Len(s)}

LowerChar(c) ==
    IF c \in Range(Uppers) THEN Lowers[CHOOSE k \in 1..Len(Uppers) : Uppers[k] = c] ELSE c

\* s.toLowerCase()
ToLowerCase(s) == [k \in 1..Len(s) |-> LowerChar(s[k])]

\* uslug, first pass: the allowed characters -_~ and letters, digits are kept,
\* a separator becomes a space, every other character is dropped.
RECURSIVE UslugKeep(_)
UslugKeep(s) ==
    IF s = <<>> THEN <<>>
    ELSE LET c == Head(s) IN
         IF c \in {"-", "_", "~"} \cup Range(Uppers) \cup Range(Lowers) \cup Range(Digits)
         THEN << c >> \o UslugKeep(Tail(s))
         ELSE IF c = " " THEN << " " >> \o UslugKeep(Tail(s))
         ELSE UslugKeep(Tail(s))

\* uslug, second pass: slug.replace(/[\s\-]+/g, '-')
RECURSIVE UslugDash(_)
UslugDash(s) ==
    IF s = <<>> THEN <<>>
    ELSE IF Head(s) \in {" ", "-"}
         THEN IF Tail(s) # <<>> /\ Head(Tail(s)) \in {" ", "-"}
              THEN UslugDash(Tail(s))
              ELSE << "-" >> \o UslugDash(Tail(s))
         ELSE << Head(s) >> \o UslugDash(Tail(s))

Uslug(source) == ToLowerCase(UslugDash(Trim(UslugKeep(Trim(source)))))

MaxIdLength == 32

\* makePluginId(source): uslug(source).substr(0, 32)
MakePluginId(source) ==
    LET slug == Uslug(source)
    IN  SubSeq(slug, 1, IF Len(slug) < MaxIdLength THEN Len(slug) ELSE MaxIdLength)

DigitValue(c) == (CHOOSE k \in 1..Len(Digits) : Digits[k] = c) - 1

RECURSIVE ParseNumber(_, _)
ParseNumber(s, acc) ==
    IF s = <<>> THEN acc ELSE ParseNumber(Tail(s), 10 * acc + DigitValue(Head(s)))

\* The k-th dot-separated segment of a version as a number, 0 past its end.
VersionSegment(v, k) ==
    LET segs == Split(v, ".") IN IF k <= Len(segs) THEN ParseNumber(segs[k], 0) ELSE 0

\* compareVersions(a, b): -1, 0 or 1, segment by segment from the left.
RECURSIVE CompareFrom(_, _, _, _)
CompareFrom(a, b, k, n) ==
    IF k > n THEN 0
    ELSE IF VersionSegment(a, k) > VersionSegment(b, k) THEN 1
    ELSE IF VersionSegment(a, k) < VersionSegment(b, k) THEN -1
    ELSE CompareFrom(a, b, k + 1, n)

CompareVersions(a, b) ==
    LET la == Len(Split(a, "."))
        lb == Len(Split(b, "."))
    IN  CompareFrom(a, b, 1, IF la > lb THEN la ELSE lb)

\* The value of a property the object does not have.
Undefined == << "<undefined>" >>

\* The members a manifest's JSON text is made of: one symbol each, a key and a
\* string value.
JsonMembers ==
    { [sym |-> "name:p",              key |-> "name",            value |-> << "p" >>],
      [sym |-> "manifest_version:?",  key |-> "manifest_version", value |-> << "?" >>],
      [sym |-> "app_min_version:",    key |-> "app_min_version", value |-> << >>],
      [sym |-> "app_min_version:1.0", key |-> "app_min_version", value |-> << "1", ".", "0" >>],
      [sym |-> "app_min_version:2.0", key |-> "app_min_version", value |-> << "2", ".", "0" >>] }

JsonKeys == {m.key : m \in JsonMembers}

MemberOf(sym) == CHOOSE m \in JsonMembers : m.sym = sym

RECURSIVE DropJsonWhitespace(_)
DropJsonWhitespace(s) ==
    IF s = <<>> THEN <<>>
    ELSE IF Head(s) \in {" ", "\t", "\r", NL} THEN DropJsonWhitespace(Tail(s))
    ELSE << Head(s) >> \o DropJsonWhitespace(Tail(s))

\* JSON.parse(text) of one object: "{", members, "}" with whitespace anywhere
\* between them; of a repeated key the last value stands.  Any other text is a
\* SyntaxError.
JsonParse(text) ==
    LET t     == DropJsonWhitespace(text)
        inner == SubSeq(t, 2, Len(t) - 1)
        wellFormed ==
            /\ Len(t) >= 2
            /\ t[1] = "{"
            /\ t[Len(t)] = "}"
            /\ \A k \in 1..Len(inner) : inner[k] \in {m.sym : m \in JsonMembers}
        valueOf(key) ==
            LET at == {k \in 1..Len(inner) : MemberOf(inner[k]).key = key}
            IN  IF at = {} THEN Undefined
                ELSE MemberOf(inner[CHOOSE k \in at : \A m \in at : m <= k]).value
    IN  IF wellFormed
        THEN [ok |-> TRUE, value |-> [key \in JsonKeys |-> valueOf(key)]]
        ELSE [ok |-> FALSE, value |-> [key \in JsonKeys |-> Undefined]]

\* Falsy that takes only a missing property for false.
FalsyOnlyMissing(x) == x = Undefined

\* !x for a property that is a string or is missing.
Falsy(x) == x = Undefined \/ x = << >>

\* manifestFromObject(o): the typed manifest, or a throw on a schema violation.
ManifestFromObject(o) ==
    IF o["manifest_version"] = << "?" >>
    THEN [ok |-> FALSE, manifest |-> o]
    ELSE [ok |-> TRUE, manifest |-> o]

(***************************************************************************)
(* The world the service runs in: the host versions it may be initialized  *)
(* with, the files of the file-system driver, the execution engine.        *)
(***************************************************************************)

AppVersions == { << "1", ".", "3" >>, << "1", ".", "4" >> }

\* `${dir}/${name}`
Sub(dir, name) == dir \o << "/" >> \o name

PluginDir == << "/", "p" >>

MissingDir == << "/", "q" >>

ManifestJson == << "m", "a", "n", "i", "f", "e", "s", "t", ".", "j", "s", "o", "n" >>

IndexJs == << "i", "n", "d", "e", "x", ".", "j", "s" >>

Dist == << "d", "i", "s", "t" >>

DotJs == << ".", "j", "s" >>

ScriptOk == << "run();" >>

ScriptCrash == << "throw;" >>

\* A single-file plugin: the manifest block, one member a line, then the code.
BundleOf(members, script) ==
    Join(<< OpenMarker, << "{" >> >> \o members \o << << "}" >>, CloseMarker, script >>, NL)

PathAb == Sub(PluginDir, << "A", "b" >>)

Pathab == Sub(PluginDir, << "a", "b" >>)

PathUc == Sub(PluginDir, << "_", "c" >>)

PathDjs == Sub(PluginDir, << "D", ".", "j", "s" >>)

PathdJS == Sub(PluginDir, << "d", ".", "J", "S" >>)

PathE == Sub(PluginDir, << "e" >>)

\* A directory with manifest.json at its root and index.js only under dist.
PathF == Sub(PluginDir, << "f" >>)

\* A .js file without a manifest block.
PathGjs == Sub(PluginDir, << "g", ".", "j", "s" >>)

PathTxt == Sub(PluginDir, << "n", ".", "t", "x", "t" >>)

\* A relative path: a directory named _c in the working directory.
RelUc == << "_", "c" >>

\* The files there are, each with its content.
FileTable ==
    { << Sub(PathAb, ManifestJson), << "{", "name:p", "app_min_version:1.0", "}" >> >>,
      << Sub(PathAb, IndexJs), ScriptOk >>,
      << Sub(Sub(Pathab, Dist), ManifestJson), << "{", "name:p", "}" >> >>,
      << Sub(Sub(Pathab, Dist), IndexJs), ScriptCrash >>,
      << Sub(PathUc, ManifestJson), << "{", "name:p", "app_min_version:2.0", "}" >> >>,
      << Sub(PathUc, IndexJs), ScriptOk >>,
      << Sub(RelUc, ManifestJson), << "{", "name:p", "app_min_version:1.0", "}" >> >>,
      << Sub(RelUc, IndexJs), ScriptOk >>,
      << PathDjs, BundleOf(<< << "name:p" >>, << "app_min_version:" >> >>, ScriptOk) >>,
      << PathdJS, BundleOf(<< << " ", "app_min_version:1.0" >> >>, ScriptOk) >>,
      << Sub(PathE, ManifestJson), << "{", "name:p" >> >>,
      << Sub(PathE, IndexJs), ScriptOk >>,
      << Sub(PathF, ManifestJson), << "{", "name:p", "app_min_version:1.0", "}" >> >>,
      << Sub(Sub(PathF, Dist), ManifestJson), << "{", "app_min_version:2.0", "}" >> >>,
      << Sub(Sub(PathF, Dist), IndexJs), ScriptOk >>,
      << PathGjs, ScriptOk >>,
      << PathTxt, << "t", "e", "x", "t" >> >> }

\* The directories readDirStats can list, each with its entries in listing order.
DirTable ==
    { << PluginDir,
         << [path |-> << "A", "b" >>, isDirectory |-> TRUE],
            [path |-> << "D", ".", "j", "s" >>, isDirectory |-> FALSE],
            [path |-> << "_", "c" >>, isDirectory |-> TRUE],
            [path |-> << "a", "b" >>, isDirectory |-> TRUE],
            [path |-> << "d", ".", "J", "S" >>, isDirectory |-> FALSE],
            [path |-> << "e" >>, isDirectory |-> TRUE],
            [path |-> << "f" >>, isDirectory |-> TRUE],
            [path |-> << "g", ".", "j", "s" >>, isDirectory |-> FALSE],
            [path |-> << "n", ".", "t", "x", "t" >>, isDirectory |-> FALSE] >> >> }

\* fsDriver.exists(path)
Exists(path) == \E f \in FileTable : f[1] = path

\* fsDriver.readFile(path): the content, or a throw.
ReadFile(path) ==
    IF Exists(path)
    THEN [ok |-> TRUE, data |-> (CHOOSE f \in FileTable : f[1] = path)[2]]
    ELSE [ok |-> FALSE, data |-> NoText]

\* fsDriver.readDirStats(path): the entries, or a throw.
ReadDirStats(path) ==
    IF \E d \in DirTable : d[1] = path
    THEN [ok |-> TRUE, stats |-> (CHOOSE d \in DirTable : d[1] = path)[2]]
    ELSE [ok |-> FALSE, stats |-> << >>]

\* runner_.run(plugin, pluginApi): whether the promise it returns resolves.
RunnerRun(plugin) == \A k \in 1..Len(plugin.scriptText) : plugin.scriptText[k] # "throw;"

(***************************************************************************)
(* Plugin, loadPlugin, loadPluginFromString, loadPluginFromPath            *)
(***************************************************************************)

NoPlugin == [uid |-> 0]

\* new Plugin(pluginId, baseDir, manifest, scriptText, logger, dispatch)
NewPlugin(uid, pluginId, baseDir, manifest, scriptText) ==
    [uid |-> uid, id |-> pluginId, baseDir |-> baseDir, manifest |-> manifest,
     scriptText |-> scriptText, enabled |-> TRUE, notices |-> << >>]

\* plugin.deprecationNotice(goneInVersion, message)
DeprecationNotice(plugin, goneInVersion, message) ==
    [plugin EXCEPT !.notices = Append(@, [goneInVersion |-> goneInVersion, message |-> message])]

Info(what, about) == [level |-> "info", what |-> what, about |-> about]

Error(what, about) == [level |-> "error", what |-> what, about |-> about]

\* The store action of a registration.
PluginAdd(pluginId) ==
    [type |-> "PLUGIN_ADD",
     plugin |-> [id |-> pluginId, views |-> << >>, contentScripts |-> << >>]]

DefaultAppMinVersion == << "1", ".", "4" >>

\* IsTooOld with <= for <.
IsTooOldOrEqual(appVersion, manifest) ==
    CompareVersions(appVersion, manifest["app_min_version"]) <= 0

\* The version gate: compareVersions(this.appVersion_, manifest.app_min_version) < 0
IsTooOld(appVersion, manifest) ==
    CompareVersions(appVersion, manifest["app_min_version"]) < 0

\* A load that threw: nothing constructed, nothing dispatched.
Thrown(error) ==
    [ok |-> FALSE, error |-> error, plugin |-> NoPlugin, constructed |-> FALSE,
     dispatched |-> << >>, logged |-> << >>, declared |-> Undefined]

\* LoadPlugin with the registry looked up only after the Plugin is constructed
\* and the gate has dispatched.
LoadPluginChecksLate(pluginId, baseDir0, manifestText, scriptText, registry, appVersion, uid) ==
    LET baseDir  == RtrimSlashes(baseDir0)
        parsed   == JsonParse(manifestText)
        declared == parsed.value["app_min_version"]
        showAppMinVersionNotice == Falsy(declared)
        manifestObj ==
            IF showAppMinVersionNotice
            THEN [parsed.value EXCEPT !["app_min_version"] = DefaultAppMinVersion]
            ELSE parsed.value
        checked  == ManifestFromObject(manifestObj)
        manifest == checked.manifest
        plugin   == NewPlugin(uid, pluginId, baseDir, manifest, scriptText)
        tooOld   == IsTooOld(appVersion, manifest)
        gated    == IF tooOld THEN [plugin EXCEPT !.enabled = FALSE] ELSE plugin
        noticed  ==
            IF showAppMinVersionNotice
            THEN DeprecationNotice(gated, << "1", ".", "5" >>, "app_min_version")
            ELSE gated
        done     ==
            [ok |-> TRUE, error |-> "none", plugin |-> noticed, constructed |-> TRUE,
             dispatched |-> IF tooOld THEN << >> ELSE << PluginAdd(pluginId) >>,
             logged |-> IF tooOld THEN << Info("disabled", pluginId) >> ELSE << >>,
             declared |-> declared]
    IN  IF ~parsed.ok THEN Thrown("InvalidManifestJson")
        ELSE IF ~checked.ok THEN Thrown("ManifestSchemaInvalid")
        ELSE IF pluginId \in DOMAIN registry
        THEN [done EXCEPT !.ok = FALSE, !.error = "DuplicateIdentifier"]
        ELSE done

\* LoadPlugin without the lookup of the identifier in the registry.
LoadPluginNoLookup(pluginId, baseDir0, manifestText, scriptText, registry, appVersion, uid) ==
    LET baseDir  == RtrimSlashes(baseDir0)
        parsed   == JsonParse(manifestText)
        declared == parsed.value["app_min_version"]
        showAppMinVersionNotice == Falsy(declared)
        manifestObj ==
            IF showAppMinVersionNotice
            THEN [parsed.value EXCEPT !["app_min_version"] = DefaultAppMinVersion]
            ELSE parsed.value
        checked  == ManifestFromObject(manifestObj)
        manifest == checked.manifest
        plugin   == NewPlugin(uid, pluginId, baseDir, manifest, scriptText)
        tooOld   == IsTooOld(appVersion, manifest)
        gated    == IF tooOld THEN [plugin EXCEPT !.enabled = FALSE] ELSE plugin
        noticed  ==
            IF showAppMinVersionNotice
            THEN DeprecationNotice(gated, << "1", ".", "5" >>, "app_min_version")
            ELSE gated
    IN  IF ~parsed.ok THEN Thrown("InvalidManifestJson")
        ELSE IF ~checked.ok THEN Thrown("ManifestSchemaInvalid")
        ELSE [ok |-> TRUE, error |-> "none", plugin |-> noticed, constructed |-> TRUE,
              dispatched |-> IF tooOld THEN << >> ELSE << PluginAdd(pluginId) >>,
              logged |-> IF tooOld THEN << Info("disabled", pluginId) >> ELSE << >>,
              declared |-> declared]

\* loadPlugin: what it returns or throws against the registry `registry`, with
\* what it dispatched and logged on the way.  `declared` is app_min_version as
\* the manifest text gave it.
LoadPlugin(pluginId, baseDir0, manifestText, scriptText, registry, appVersion, uid) ==
    LET baseDir  == RtrimSlashes(baseDir0)
        parsed   == JsonParse(manifestText)
        declared == parsed.value["app_min_version"]
        showAppMinVersionNotice == Falsy(declared)
        manifestObj ==
            IF showAppMinVersionNotice
            THEN [parsed.value EXCEPT !["app_min_version"] = DefaultAppMinVersion]
            ELSE parsed.value
        checked  == ManifestFromObject(manifestObj)
        manifest == checked.manifest
        plugin   == NewPlugin(uid, pluginId, baseDir, manifest, scriptText)
        tooOld   == IsTooOld(appVersion, manifest)
        gated    == IF tooOld THEN [plugin EXCEPT !.enabled = FALSE] ELSE plugin
        noticed  ==
            IF showAppMinVersionNotice
            THEN DeprecationNotice(gated, << "1", ".", "5" >>, "app_min_version")
            ELSE gated
    IN  IF ~parsed.ok THEN Thrown("InvalidManifestJson")
        ELSE IF ~checked.ok THEN Thrown("ManifestSchemaInvalid")
        ELSE IF pluginId \in DOMAIN registry THEN Thrown("DuplicateIdentifier")
        ELSE [ok |-> TRUE, error |-> "none", plugin |-> noticed, constructed |-> TRUE,
              dispatched |-> IF tooOld THEN << >> ELSE << PluginAdd(pluginId) >>,
              logged |-> IF tooOld THEN << Info("disabled", pluginId) >> ELSE << >>,
              declared |-> declared]

LoadPluginFromString(pluginId, baseDir0, jsBundleString, registry, appVersion, uid) ==
    LET baseDir == RtrimSlashes(baseDir0)
        r       == ParsePluginJsBundle(jsBundleString)
    IN  IF ~r.ok THEN Thrown("ManifestNotFound")
        ELSE LoadPlugin(pluginId, baseDir, r.manifestText, r.scriptText,
                        registry, appVersion, uid)

\* LoadPluginFromPath that looks for index.js under dist when the directory
\* chosen for manifest.json does not have it.
LoadPluginFromPathMixes(path0, registry, appVersion, uid) ==
    LET path     == RtrimSlashes(path0)
        bundleFile == ReadFile(path)
        distPath == IF Exists(Sub(path, ManifestJson)) THEN path ELSE Sub(path, Dist)
        loading  == << Info("loading", path) >>
        scriptText   == IF Exists(Sub(distPath, IndexJs))
                        THEN ReadFile(Sub(distPath, IndexJs))
                        ELSE ReadFile(Sub(Sub(path, Dist), IndexJs))
        manifestText == ReadFile(Sub(distPath, ManifestJson))
        pluginId == MakePluginId(Filename(path))
        loaded   == LoadPlugin(pluginId, distPath, manifestText.data, scriptText.data,
                               registry, appVersion, uid)
    IN  IF EndsWith(ToLowerCase(path), DotJs)
        THEN IF ~bundleFile.ok THEN Thrown("FsError")
             ELSE LoadPluginFromString(Filename(path), Dirname(path), bundleFile.data,
                                       registry, appVersion, uid)
        ELSE IF ~scriptText.ok \/ ~manifestText.ok
             THEN [Thrown("FsError") EXCEPT !.logged = loading]
             ELSE [loaded EXCEPT !.logged = loading \o @]

LoadPluginFromPath(path0, registry, appVersion, uid) ==
    LET path     == RtrimSlashes(path0)
        bundleFile == ReadFile(path)
        distPath == IF Exists(Sub(path, ManifestJson)) THEN path ELSE Sub(path, Dist)
        loading  == << Info("loading", path) >>
        scriptText   == ReadFile(Sub(distPath, IndexJs))
        manifestText == ReadFile(Sub(distPath, ManifestJson))
        pluginId == MakePluginId(Filename(path))
        loaded   == LoadPlugin(pluginId, distPath, manifestText.data, scriptText.data,
                               registry, appVersion, uid)
    IN  IF EndsWith(ToLowerCase(path), DotJs)
        THEN IF ~bundleFile.ok THEN Thrown("FsError")
             ELSE LoadPluginFromString(Filename(path), Dirname(path), bundleFile.data,
                                       registry, appVersion, uid)
        ELSE IF ~scriptText.ok \/ ~manifestText.ok
             THEN [Thrown("FsError") EXCEPT !.logged = loading]
             ELSE [loaded EXCEPT !.logged = loading \o @]

(***************************************************************************)
(* The calls a client makes                                                *)
(***************************************************************************)

\* Most candidates and loadPluginFromString calls a run of the model gives the
\* service.
MaxWork == 3

\* The paths a client lists explicitly.
ExplicitPaths ==
    { PathAb \o << "/" >>, Pathab, PathUc, RelUc, PathDjs, PathdJS, PathE }

\* The arguments of loadAndRunPlugins: a list of at most n paths, or a directory.
BatchArgs(n) ==
    { [isArray |-> TRUE, paths |-> ps, dir |-> << >>] :
        ps \in UNION { [1..k -> ExplicitPaths] : k \in 0..n } }
    \cup
    { [isArray |-> FALSE, paths |-> << >>, dir |-> d] : d \in {PluginDir, MissingDir} }

\* The arguments of direct loadPluginFromString calls.
StringLoads ==
    { [pluginId |-> << "x" >>, baseDir |-> << "/", "s", "/" >>,
       jsBundleString |-> BundleOf(<< << "app_min_version:2.0" >> >>, ScriptOk)],
      [pluginId |-> << "x" >>, baseDir |-> << "/", "t" >>,
       jsBundleString |-> BundleOf(<< << "name:p" >> >>, ScriptOk)],
      [pluginId |-> << "y" >>, baseDir |-> << "/", "t" >>,
       jsBundleString |-> BundleOf(<< << "manifest_version:?" >> >>, ScriptOk)],
      [pluginId |-> << "y" >>, baseDir |-> << "/", "t" >>,
       jsBundleString |-> BundleOf(<< << "oops" >> >>, ScriptOk)],
      [pluginId |-> << "y" >>, baseDir |-> << "/", "t" >>,
       jsBundleString |-> ScriptOk] }

NoLoad == [Thrown("none") EXCEPT !.ok = TRUE]

NotExtracted == [ok |-> FALSE, error |-> "not called", scriptText |-> NoText,
                 manifestText |-> NoText]

Init ==
    /\ appVersion_ \in AppVersions
    /\ plugins_ = << >>
    /\ store = << >>
    /\ log = << >>
    /\ ran = << >>
    /\ held = {}
    /\ pc = "idle"
    /\ pluginPaths = << >>
    /\ i = 1
    /\ inflight = {}
    /\ loadRes = NoLoad
    /\ err = "none"
    /\ outcome = << >>
    /\ callResult = "none"
    /\ nextUid = 1
    /\ work = 0
    /\ bundle = << >>
    /\ extracted = NotExtracted

\* this.plugins_[id] = plugin
Put(registry, id, plugin) ==
    [k \in DOMAIN registry \cup {id} |-> IF k = id THEN plugin ELSE registry[k]]

\* How a candidate of the batch ended.
Ended(path, res, error, uid) == [path |-> path, res |-> res, error |-> error, uid |-> uid]

\* What a load call did to the store, the log and the object identities.
ApplyLoad(r) ==
    /\ loadRes' = r
    /\ store' = store \o r.dispatched
    /\ log' = log \o r.logged
    /\ nextUid' = IF r.constructed THEN nextUid + 1 ELSE nextUid

\* loadAndRunPlugins, up to the loop: the candidate list.
LoadAndRunPlugins(pluginDirOrPaths) ==
    LET listed == ReadDirStats(pluginDirOrPaths.dir)
        kept   == SelectSeq(listed.stats,
                            LAMBDA stat : stat.isDirectory
                                          \/ EndsWith(ToLowerCase(stat.path), DotJs))
        mapped == [k \in 1..Len(kept) |-> Sub(pluginDirOrPaths.dir, kept[k].path)]
        cost   == IF pluginDirOrPaths.isArray /\ Len(pluginDirOrPaths.paths) > 0
                  THEN Len(pluginDirOrPaths.paths) ELSE 1
    IN  /\ pc = "idle"
        /\ work + cost <= MaxWork
        /\ work' = work + cost
        /\ IF pluginDirOrPaths.isArray
           THEN /\ pluginPaths' = pluginDirOrPaths.paths
                /\ pc' = "loop"
                /\ callResult' = "pending"
           ELSE IF listed.ok
           THEN /\ pluginPaths' = mapped
                /\ pc' = "loop"
                /\ callResult' = "pending"
           ELSE /\ pluginPaths' = << >>
                /\ pc' = "idle"
                /\ callResult' = "FsError"
        /\ i' = 1
        /\ outcome' = << >>
        /\ inflight' = {}
        /\ UNCHANGED << appVersion_, plugins_, store, log, ran, held, loadRes, err,
                        nextUid, bundle, extracted >>

\* The loop's test of the candidate's name: pluginPath.indexOf('_') === 0
IsSkipped(pluginPath) == StartsWith(pluginPath, << "_" >>)

\* The loop body for a candidate the test skips.
BatchSkip ==
    /\ pc = "loop"
    /\ i <= Len(pluginPaths)
    /\ IsSkipped(pluginPaths[i])
    /\ log' = Append(log, Info("skipped", pluginPaths[i]))
    /\ outcome' = Append(outcome, Ended(pluginPaths[i], "skipped", "none", 0))
    /\ i' = i + 1
    /\ UNCHANGED << appVersion_, plugins_, store, ran, held, pc, pluginPaths, inflight,
                    loadRes, err, callResult, nextUid, work, bundle, extracted >>

\* The try block, first statement: await this.loadPluginFromPath(pluginPath)
BatchLoad ==
    /\ pc = "loop"
    /\ i <= Len(pluginPaths)
    /\ ~IsSkipped(pluginPaths[i])
    /\ \E r \in {LoadPluginFromPath(pluginPaths[i], plugins_, appVersion_, nextUid)} :
           /\ ApplyLoad(r)
           /\ pc' = IF r.ok THEN "loaded" ELSE "catch"
           /\ err' = r.error
    /\ inflight' = inflight \cup {i}
    /\ UNCHANGED << appVersion_, plugins_, ran, held, pluginPaths, i, outcome,
                    callResult, work, bundle, extracted >>

\* RunPlugin without the registry entry.
RunPluginNoRegister(plugin) ==
    /\ plugins_' = plugins_
    /\ ran' = Append(ran, plugin)

\* RunPlugin that switches the plugin on as it registers it.
RunPluginEnables(plugin) ==
    /\ plugins_' = Put(plugins_, plugin.id, [plugin EXCEPT !.enabled = TRUE])
    /\ ran' = Append(ran, [plugin EXCEPT !.enabled = TRUE])

\* runPlugin up to the hand-off: the registry entry, then runner_.run.
RunPlugin(plugin) ==
    /\ plugins_' = Put(plugins_, plugin.id, plugin)
    /\ ran' = Append(ran, plugin)

\* BatchRun without the await: the loop goes on while the runner has the plugin.
BatchRunNotAwaited ==
    /\ pc = "loaded"
    /\ plugins_' = Put(plugins_, loadRes.plugin.id, loadRes.plugin)
    /\ ran' = Append(ran, loadRes.plugin)
    /\ pc' = "loop"
    /\ i' = i + 1
    /\ UNCHANGED << appVersion_, store, log, held, pluginPaths, inflight, loadRes,
                    err, outcome, callResult, nextUid, work, bundle, extracted >>

\* BatchRun that gives the runner enabled plugins only: a disabled one ends
\* its pass of the loop unregistered.
BatchRunEnabledOnly ==
    /\ pc = "loaded"
    /\ IF loadRes.plugin.enabled
       THEN /\ RunPlugin(loadRes.plugin)
            /\ pc' = "running"
            /\ UNCHANGED << i, inflight, outcome >>
       ELSE /\ UNCHANGED << plugins_, ran >>
            /\ pc' = "loop"
            /\ i' = i + 1
            /\ inflight' = inflight \ {i}
            /\ outcome' = Append(outcome,
                                 Ended(pluginPaths[i], "disabled", "none", loadRes.plugin.uid))
    /\ UNCHANGED << appVersion_, store, log, held, pluginPaths, loadRes,
                    err, callResult, nextUid, work, bundle, extracted >>

\* The try block, second statement, started: this.runPlugin(plugin)
BatchRun ==
    /\ pc = "loaded"
    /\ RunPlugin(loadRes.plugin)
    /\ pc' = "running"
    /\ UNCHANGED << appVersion_, store, log, held, pluginPaths, i, inflight, loadRes,
                    err, outcome, callResult, nextUid, work, bundle, extracted >>

\* The try block, second statement, awaited: the runner's promise settles.
BatchRunSettled ==
    /\ pc = "running"
    /\ IF RunnerRun(loadRes.plugin)
       THEN /\ pc' = "loop"
            /\ i' = i + 1
            /\ inflight' = inflight \ {i}
            /\ outcome' = Append(outcome,
                                 Ended(pluginPaths[i], "ran", "none", loadRes.plugin.uid))
            /\ err' = err
       ELSE /\ pc' = "catch"
            /\ err' = "RunError"
            /\ UNCHANGED << i, inflight, outcome >>
    /\ UNCHANGED << appVersion_, plugins_, store, log, ran, held, pluginPaths, loadRes,
                    callResult, nextUid, work, bundle, extracted >>

\* BatchCatch without the catch: the error leaves loadAndRunPlugins.
BatchCatchRethrows ==
    /\ pc = "catch"
    /\ pc' = "idle"
    /\ callResult' = err
    /\ inflight' = inflight \ {i}
    /\ UNCHANGED << appVersion_, plugins_, store, log, ran, held, pluginPaths, i,
                    loadRes, err, outcome, nextUid, work, bundle, extracted >>

\* BatchCatch that takes a plugin whose run failed out of the registry again.
BatchCatchRollsBack ==
    /\ pc = "catch"
    /\ log' = Append(log, Error(err, pluginPaths[i]))
    /\ outcome' = Append(outcome,
                         Ended(pluginPaths[i], "failed", err,
                               IF loadRes.ok THEN loadRes.plugin.uid ELSE 0))
    /\ plugins_' = IF err = "RunError"
                   THEN [id \in DOMAIN plugins_ \ {loadRes.plugin.id} |-> plugins_[id]]
                   ELSE plugins_
    /\ inflight' = inflight \ {i}
    /\ i' = i + 1
    /\ pc' = "loop"
    /\ UNCHANGED << appVersion_, store, ran, held, pluginPaths, loadRes, err,
                    callResult, nextUid, work, bundle, extracted >>

\* The catch block, then on to the next candidate.
BatchCatch ==
    /\ pc = "catch"
    /\ log' = Append(log, Error(err, pluginPaths[i]))
    /\ outcome' = Append(outcome,
                         Ended(pluginPaths[i], "failed", err,
                               IF loadRes.ok THEN loadRes.plugin.uid ELSE 0))
    /\ inflight' = inflight \ {i}
    /\ i' = i + 1
    /\ pc' = "loop"
    /\ UNCHANGED << appVersion_, plugins_, store, ran, held, pluginPaths, loadRes, err,
                    callResult, nextUid, work, bundle, extracted >>

\* The loop is over: loadAndRunPlugins returns.
BatchReturn ==
    /\ pc = "loop"
    /\ i > Len(pluginPaths)
    /\ pc' = "idle"
    /\ callResult' = "ok"
    /\ UNCHANGED << appVersion_, plugins_, store, log, ran, held, pluginPaths, i,
                    inflight, loadRes, err, outcome, nextUid, work, bundle, extracted >>

\* CallLoadPluginFromString with a catch that logs the error and returns.
CallLoadPluginFromStringCaught(arg) ==
    /\ pc = "idle"
    /\ work < MaxWork
    /\ work' = work + 1
    /\ \E r \in {LoadPluginFromString(arg.pluginId, arg.baseDir, arg.jsBundleString,
                                      plugins_, appVersion_, nextUid)} :
           /\ loadRes' = r
           /\ store' = store \o r.dispatched
           /\ log' = IF r.ok THEN log \o r.logged
                     ELSE Append(log \o r.logged, Error(r.error, arg.pluginId))
           /\ nextUid' = IF r.constructed THEN nextUid + 1 ELSE nextUid
           /\ held' = IF r.ok THEN held \cup {r.plugin} ELSE held
           /\ callResult' = "ok"
    /\ UNCHANGED << appVersion_, plugins_, ran, pc, pluginPaths, i, inflight, err,
                    outcome, bundle, extracted >>

\* A client calls loadPluginFromString and keeps the plugin it returns.
CallLoadPluginFromString(arg) ==
    /\ pc = "idle"
    /\ work < MaxWork
    /\ work' = work + 1
    /\ \E r \in {LoadPluginFromString(arg.pluginId, arg.baseDir, arg.jsBundleString,
                                      plugins_, appVersion_, nextUid)} :
           /\ ApplyLoad(r)
           /\ held' = IF r.ok THEN held \cup {r.plugin} ELSE held
           /\ callResult' = IF r.ok THEN "ok" ELSE r.error
    /\ UNCHANGED << appVersion_, plugins_, ran, pc, pluginPaths, i, inflight, err,
                    outcome, bundle, extracted >>

\* A client calls runPlugin with a plugin it holds and has not run yet, and
\* awaits it.
CallRunPlugin(plugin) ==
    /\ pc = "idle"
    /\ \A k \in 1..Len(ran) : ran[k] # plugin
    /\ RunPlugin(plugin)
    /\ callResult' = IF RunnerRun(plugin) THEN "ok" ELSE "RunError"
    /\ UNCHANGED << appVersion_, store, log, held, pc, pluginPaths, i, inflight,
                    loadRes, err, outcome, nextUid, work, bundle, extracted >>

Next ==
    \/ \E arg \in BatchArgs(MaxWork - work) : LoadAndRunPlugins(arg)
    \/ BatchSkip
    \/ BatchLoad
    \/ BatchRun
    \/ BatchRunSettled
    \/ BatchCatch
    \/ BatchReturn
    \/ \E arg \in StringLoads : CallLoadPluginFromString(arg)
    \/ \E plugin \in held : CallRunPlugin(plugin)

Spec == Init /\ [][Next]_vars

(***************************************************************************)
(* Extraction alone: parsePluginJsBundle applied to every bundle of at     *)
(* most MaxLines lines, each line of one of the shapes of LineShapes.      *)
(***************************************************************************)

MaxLines == 5

LineShapes ==
    { << >>,
      << "x" >>,
      OpenMarker,
      << " " >> \o OpenMarker \o << "\r" >>,
      << " " >> \o CloseMarker \o << "x" >>,
      << " ", "{", " " >>,
      << "x" >> \o CloseMarker }

Bundles(n) == { Join(ls, NL) : ls \in UNION { [1..k -> LineShapes] : k \in 1..n } }

InitExtract ==
    /\ appVersion_ = DefaultAppMinVersion
    /\ plugins_ = << >>
    /\ store = << >>
    /\ log = << >>
    /\ ran = << >>
    /\ held = {}
    /\ pc = "idle"
    /\ pluginPaths = << >>
    /\ i = 1
    /\ inflight = {}
    /\ loadRes = NoLoad
    /\ err = "none"
    /\ outcome = << >>
    /\ callResult = "none"
    /\ nextUid = 1
    /\ work = 0
    /\ bundle \in Bundles(MaxLines)
    /\ extracted = NotExtracted

Extract ==
    /\ extracted = NotExtracted
    /\ extracted' = ParsePluginJsBundle(bundle)
    /\ UNCHANGED << serviceVars, bundle >>

NextExtract == Extract

SpecExtract == InitExtract /\ [][NextExtract]_vars

(***************************************************************************)
(* Properties of extraction                                                *)
(***************************************************************************)

BundleLines == Split(bundle, NL)

ExtractDone == extracted # NotExtracted

IsOpenLine(lines, k) == Trim(lines[k]) = OpenMarker

IsCloseLine(lines, k) == StartsWith(Trim(lines[k]), CloseMarker)

HasOpenLine(lines) == \E k \in 1..Len(lines) : IsOpenLine(lines, k)

HasCloseLine(lines) == \E k \in 1..Len(lines) : IsCloseLine(lines, k)

\* The first line that trims to the opening marker.
FirstOpen(lines) ==
    CHOOSE o \in 1..Len(lines) :
        IsOpenLine(lines, o) /\ \A k \in 1..(o - 1) : ~IsOpenLine(lines, k)

\* Whether a closing line follows the first opening line.
ClosedAfterOpen(lines) ==
    \E c \in (FirstOpen(lines) + 1)..Len(lines) : IsCloseLine(lines, c)

\* The first closing line after the first opening line.
FirstClose(lines) ==
    LET o == FirstOpen(lines)
    IN  CHOOSE c \in (o + 1)..Len(lines) :
            IsCloseLine(lines, c) /\ \A k \in (o + 1)..(c - 1) : ~IsCloseLine(lines, k)

\* The lines from..to, trimmed and joined by newlines.
TrimmedBetween(lines, from, to) ==
    Join([k \in 1..(to - from + 1) |-> Trim(lines[from + k - 1])], NL)

ManifestNotFound ==
    /\ ~extracted.ok
    /\ extracted.error = "Could not find manifest"

\* C7 as stated: a bundle that lacks a line trimming to the opening marker, or
\* lacks a line starting with the closing marker, is rejected with
\* ManifestNotFound.
C7_MissingMarkerRejected ==
    LET lines == BundleLines
    IN  (ExtractDone /\ (~HasOpenLine(lines) \/ ~HasCloseLine(lines))) => ManifestNotFound

\* C7 amended: a bundle with no opening marker line is rejected with
\* ManifestNotFound; a bundle whose first opening marker line is followed by
\* at least one line and by no closing line is not rejected: extraction returns
\* all the lines after the opening marker, trimmed, as the manifest text; it is
\* rejected only when no line follows the opening marker.
C7_MissingOpenRejected ==
    ExtractDone =>
        LET lines == BundleLines
        IN  /\ ~HasOpenLine(lines) => ManifestNotFound
            /\ (HasOpenLine(lines) /\ ~ClosedAfterOpen(lines)) =>
                  IF FirstOpen(lines) = Len(lines)
                  THEN ManifestNotFound
                  ELSE /\ extracted.ok
                       /\ extracted.manifestText
                            = TrimmedBetween(lines, FirstOpen(lines) + 1, Len(lines))

\* C7 witness: a bundle with a closing line and no opening line was rejected.
C7_Witness ==
    /\ ExtractDone
    /\ ~HasOpenLine(BundleLines)
    /\ HasCloseLine(BundleLines)
    /\ \E k \in 1..Len(BundleLines) : BundleLines[k] = << "x" >>
    /\ ManifestNotFound

\* A bundle with a well-formed manifest block: an opening line, one or more
\* inner lines, a closing line.
WellFormedBlock(lines) ==
    /\ HasOpenLine(lines)
    /\ ClosedAfterOpen(lines)
    /\ FirstClose(lines) > FirstOpen(lines) + 1

\* C8: of a bundle with a well-formed manifest block, extraction returns as
\* manifest text the lines between the first opening line and the first
\* closing line after it, trimmed and joined by newlines, and as script text
\* the whole bundle text; no other line contributes.
C8_WellFormedExtracted ==
    ExtractDone =>
        LET lines == BundleLines
        IN  WellFormedBlock(lines) =>
                /\ extracted.ok
                /\ extracted.manifestText
                     = TrimmedBetween(lines, FirstOpen(lines) + 1, FirstClose(lines) - 1)
                /\ extracted.scriptText = bundle

\* C8 witness: a well-formed block with a line before it, a line after it and
\* an inner line that trimming changes.
C8_Witness ==
    /\ ExtractDone
    /\ WellFormedBlock(BundleLines)
    /\ FirstOpen(BundleLines) > 1
    /\ FirstClose(BundleLines) < Len(BundleLines)
    /\ \E k \in (FirstOpen(BundleLines) + 1)..(FirstClose(BundleLines) - 1) :
           Trim(BundleLines[k]) # BundleLines[k]
    /\ extracted.ok

(***************************************************************************)
(* Properties of the batch loop                                            *)
(***************************************************************************)

\* The loop of the current batch has gone through its list.
BatchOver == pc = "loop" /\ i > Len(pluginPaths)

\* What loading the path does on a service with nothing registered.
LoadedAlone(path) == LoadPluginFromPath(path, << >>, appVersion_, 0)

\* The plugin of the k-th finished candidate was given to the runner.
HandedOff(k) ==
    /\ outcome[k].uid # 0
    /\ \E j \in 1..Len(ran) : ran[j].uid = outcome[k].uid

\* The log entries, and among them the errors, that a step adds.
NewLog == SubSeq(log', Len(log) + 1, Len(log'))

NewErrors == SelectSeq(NewLog, LAMBDA e : e.level = "error")

\* The step ends a candidate, and ends it as failed.
CandidateFails ==
    /\ Len(outcome') = Len(outcome) + 1
    /\ outcome'[Len(outcome')].res = "failed"

C1_Isolation ==
    BatchOver =>
        /\ Len(outcome) = Len(pluginPaths)
        /\ \A k \in 1..Len(outcome) : \E alone \in {LoadedAlone(pluginPaths[k])} :
              /\ outcome[k].path = pluginPaths[k]
              /\ alone.ok =>
                    \/ outcome[k].res = "skipped"
                    \/ HandedOff(k)
                    \/ /\ outcome[k].error = "DuplicateIdentifier"
                       /\ alone.plugin.id \in DOMAIN plugins_
              /\ ~alone.ok => outcome[k].res \in {"skipped", "failed"}

C1_OneErrorPerFailure ==
    IF CandidateFails
    THEN /\ Len(NewErrors) = 1
         /\ NewErrors[1].about = pluginPaths[i]
    ELSE NewErrors = << >>

C1_NoThrow ==
    (pc # "idle" /\ pc' = "idle") => (callResult' = "ok" /\ BatchOver)

UnderscoreName(path) == StartsWith(Basename(RtrimSlashes(path)), << "_" >>)

\* C2 as stated: a candidate whose base name starts with _ is skipped: it is
\* never given to loadPluginFromPath and no plugin loaded from it is in the
\* registry.
C2_UnderscoreNeverLoaded ==
    /\ (pc \in {"loaded", "running", "catch"}) => ~UnderscoreName(pluginPaths[i])
    /\ \A k \in 1..Len(outcome) :
          UnderscoreName(outcome[k].path) =>
              /\ outcome[k].res = "skipped"
              /\ \A id \in DOMAIN plugins_ : plugins_[id].uid # outcome[k].uid

\* The identifier makePluginId gives the base name of a candidate.
SlugOf(path) == MakePluginId(Filename(RtrimSlashes(path)))

\* Every plugin in the registry was loaded by the current batch.
OnlyThisBatch ==
    \A id \in DOMAIN plugins_ : \E k \in 1..Len(outcome) : outcome[k].uid = plugins_[id].uid

\* C3 as stated: of two candidates of a batch whose base names have the same
\* makePluginId value and that both load on their own, the first of that value
\* is loaded and the later one is rejected as a duplicate.
C3_SameSlugRejected ==
    (BatchOver /\ OnlyThisBatch) =>
        \A k, l \in 1..Len(outcome) :
            ( /\ k < l
              /\ SlugOf(pluginPaths[k]) = SlugOf(pluginPaths[l])
              /\ \A j \in 1..(k - 1) : SlugOf(pluginPaths[j]) # SlugOf(pluginPaths[k])
              /\ outcome[k].res # "skipped"
              /\ outcome[l].res # "skipped"
              /\ LoadedAlone(pluginPaths[k]).ok
              /\ LoadedAlone(pluginPaths[l]).ok )
            => /\ outcome[k].uid # 0
               /\ outcome[l].error = "DuplicateIdentifier"

\* C4 as stated: an identifier of the registry stays mapped to the same plugin.
C4_NeverOverwritten ==
    [][\A id \in DOMAIN plugins_ :
          id \in DOMAIN plugins_' /\ plugins_'[id] = plugins_[id]]_vars

(***************************************************************************)
(* Properties of the loader                                                *)
(***************************************************************************)

\* Semantic-version order: a is strictly older than b.
StrictlyOlder(a, b) ==
    \E k \in 1..3 :
        /\ VersionSegment(a, k) < VersionSegment(b, k)
        /\ \A m \in 1..(k - 1) : VersionSegment(a, m) = VersionSegment(b, m)

\* The store actions a step adds.
NewStore == SubSeq(store', Len(store) + 1, Len(store'))

\* C5: a load that constructs its plugin returns it disabled and dispatches
\* nothing exactly when the host version is strictly older than the manifest's
\* app_min_version; otherwise it returns it enabled and dispatches one
\* PLUGIN_ADD with the plugin's identifier and empty views and contentScripts;
\* nothing else dispatches.
C5_VersionGate ==
    [][IF nextUid' # nextUid
       THEN /\ loadRes'.ok
            /\ loadRes'.plugin.uid = nextUid
            /\ IF StrictlyOlder(appVersion_, loadRes'.plugin.manifest["app_min_version"])
               THEN /\ loadRes'.plugin.enabled = FALSE
                    /\ NewStore = << >>
               ELSE /\ loadRes'.plugin.enabled = TRUE
                    /\ NewStore = << [type |-> "PLUGIN_ADD",
                                      plugin |-> [id |-> loadRes'.plugin.id,
                                                  views |-> << >>,
                                                  contentScripts |-> << >>]] >>
       ELSE NewStore = << >>]_vars

\* C5 witness: both sides of the gate: a plugin was loaded and announced, the
\* next one was returned disabled and the store heard nothing of it.
C5_Witness ==
    /\ loadRes.constructed
    /\ loadRes.plugin.enabled = FALSE
    /\ loadRes.plugin.uid = 2
    /\ Len(store) = 1
    /\ store[1].plugin.id # loadRes.plugin.id

\* C6 as stated: without app_min_version in the manifest the plugin carries a
\* deprecation notice and the minimum version 1.4, which the gate uses; with
\* app_min_version declared it carries no notice and the declared value.
C6_DefaultOnlyWhenAbsent ==
    loadRes.constructed =>
        IF loadRes.declared = Undefined
        THEN /\ Len(loadRes.plugin.notices) = 1
             /\ loadRes.plugin.manifest["app_min_version"] = << "1", ".", "4" >>
             /\ loadRes.plugin.enabled = ~StrictlyOlder(appVersion_, << "1", ".", "4" >>)
        ELSE /\ loadRes.plugin.notices = << >>
             /\ loadRes.plugin.manifest["app_min_version"] = loadRes.declared

\* C6 amended: without app_min_version in the manifest, or with an empty one,
\* the plugin carries a deprecation notice and the minimum version 1.4, which
\* the gate uses; with a non-empty app_min_version declared it carries no
\* notice and the declared value.
C6_DefaultWhenAbsentOrEmpty ==
    loadRes.constructed =>
        IF loadRes.declared = Undefined \/ loadRes.declared = << >>
        THEN /\ Len(loadRes.plugin.notices) = 1
             /\ loadRes.plugin.manifest["app_min_version"] = << "1", ".", "4" >>
             /\ loadRes.plugin.enabled = ~StrictlyOlder(appVersion_, << "1", ".", "4" >>)
        ELSE /\ loadRes.plugin.notices = << >>
             /\ loadRes.plugin.manifest["app_min_version"] = loadRes.declared

\* C6 witness: a manifest without app_min_version on a host older than 1.4:
\* the plugin has the notice and the default, and the gate disabled it.
C6_Witness ==
    /\ loadRes.constructed
    /\ loadRes.declared = Undefined
    /\ Len(loadRes.plugin.notices) = 1
    /\ loadRes.plugin.manifest["app_min_version"] = << "1", ".", "4" >>
    /\ loadRes.plugin.enabled = FALSE

(***************************************************************************)
(* Properties of the hand-off and of the order of the loop                 *)
(***************************************************************************)

\* How often the plugin with this identity was given to the runner.
HandOffs(uid) == Cardinality({j \in 1..Len(ran) : ran[j].uid = uid})

C9_OncePerLoaded ==
    \A k \in 1..Len(outcome) :
        /\ outcome[k].res = "ran" => outcome[k].uid # 0
        /\ outcome[k].res = "skipped" => outcome[k].uid = 0
        /\ outcome[k].uid # 0 => HandOffs(outcome[k].uid) = 1

C9_HandOffStep ==
    (pc # "idle" /\ ran' # ran) =>
        /\ pc = "loaded"
        /\ loadRes.ok
        /\ ran' = Append(ran, loadRes.plugin)
        /\ loadRes.plugin.id \in DOMAIN plugins_'
        /\ plugins_'[loadRes.plugin.id] = loadRes.plugin

\* C9: in a batch, the runner is given a plugin only by the step that follows a
\* successful load, and that step has the plugin registered under its
\* identifier; every candidate that was loaded is handed off exactly once, a
\* candidate that failed to load or was skipped never.
C9_HandOffOnceAfterRegistration ==
    /\ []C9_OncePerLoaded
    /\ [][C9_HandOffStep]_vars

\* C9 witness: the second candidate is with the runner and registered, the
\* first one failed to load and was never handed off.
C9_Witness ==
    /\ pc = "running"
    /\ i = 2
    /\ outcome[1].res = "failed"
    /\ outcome[1].uid = 0
    /\ Len(ran) = 1
    /\ plugins_[loadRes.plugin.id] = ran[1]

C10_InOrder ==
    /\ Cardinality(inflight) <= 1
    /\ Len(outcome) = i - 1
    /\ \A k \in 1..Len(outcome) : outcome[k].path = pluginPaths[k]
    /\ inflight \subseteq {i}

C10_StartsWhenSettled ==
    (inflight' # inflight /\ inflight' # {}) => (inflight = {} /\ inflight' = {i})

\* C10: the batch loop is sequential and keeps the order of the list: the
\* candidates end in list order, at most one candidate is in flight, it is the
\* one the loop stands at, and a candidate starts only when none is in flight.
C10_Sequential ==
    /\ []C10_InOrder
    /\ [][C10_StartsWhenSettled]_vars

\* C10 witness: the second of three candidates is with the runner, the first
\* has ended, the third has not started.
C10_Witness ==
    /\ pc = "running"
    /\ Len(pluginPaths) = 3
    /\ i = 2
    /\ inflight = {2}
    /\ Len(outcome) = 1

(***************************************************************************)
(* Properties of failed loads and of identifiers                           *)
(***************************************************************************)

\* The step is a load: the loop's loadPluginFromPath, or a client's
\* loadPluginFromString.
LoadStep ==
    \/ pc = "loop" /\ pc' \in {"loaded", "catch"}
    \/ pc = "idle" /\ pc' = "idle" /\ work' = work + 1 /\ callResult' # "FsError"

\* The errors loadPlugin itself throws.
LoadPluginErrors == {"InvalidManifestJson", "ManifestSchemaInvalid", "DuplicateIdentifier"}

\* C11: a load that fails in loadPlugin on the manifest's JSON, on the
\* validator or on a taken identifier dispatches nothing to the store,
\* constructs no Plugin, and leaves the registry and the plugins a client holds
\* as they were.
C11_NoPartialRegistration ==
    [][(LoadStep /\ loadRes'.error \in LoadPluginErrors) =>
          /\ ~loadRes'.ok
          /\ ~loadRes'.constructed
          /\ loadRes'.plugin = NoPlugin
          /\ nextUid' = nextUid
          /\ store' = store
          /\ plugins_' = plugins_
          /\ held' = held]_vars

\* C11 witness: a load was rejected for its identifier on a service that has
\* one plugin registered and announced: the store has the one action, the
\* registry the one plugin.
C11_Witness ==
    /\ loadRes.error = "DuplicateIdentifier"
    /\ ~loadRes.constructed
    /\ Len(store) = 1
    /\ Cardinality(DOMAIN plugins_) = 1
    /\ nextUid = 2

\* The path names a single .js file.
IsJsFile(path) == EndsWith(ToLowerCase(RtrimSlashes(path)), DotJs)

\* C12 as stated: the plugin loadPluginFromPath returns for a candidate, a .js
\* file or a directory, has as identifier makePluginId of the path's base name
\* (with or without its extension), of at most 32 characters.
C12_IdIsSlugOfBaseName ==
    (pc \in {"loaded", "running"}) =>
        /\ loadRes.plugin.id \in { SlugOf(pluginPaths[i]),
                                   MakePluginId(Basename(RtrimSlashes(pluginPaths[i]))) }
        /\ Len(loadRes.plugin.id) <= MaxIdLength

\* Every Plugin object the state refers to: the one the last load returned,
\* those a client holds, those of the registry, those given to the runner.
PluginsOf(res, kept, registry, given) ==
    (IF res.constructed THEN {res.plugin} ELSE {})
    \cup kept
    \cup {registry[id] : id \in DOMAIN registry}
    \cup {given[k] : k \in 1..Len(given)}

Entities == PluginsOf(loadRes, held, plugins_, ran)

\* Two references to the same object show the same identifier, base directory
\* and enabled flag.
SameFields(p, q) ==
    (p.uid = q.uid) =>
        /\ p.id = q.id
        /\ p.baseDir = q.baseDir
        /\ p.enabled = q.enabled

C13_GateOnly ==
    \A p \in Entities :
        /\ \A q \in Entities : SameFields(p, q)
        /\ p.enabled = ~StrictlyOlder(appVersion_, p.manifest["app_min_version"])

C13_Kept ==
    \A p \in Entities : \A q \in PluginsOf(loadRes', held', plugins_', ran') : SameFields(p, q)

\* C13: a plugin is returned by its load disabled exactly when the version
\* gate of that load found the host too old, and enabled otherwise; from then
\* on no step (runPlugin, a later load, a later batch) changes its identifier,
\* its base directory or its enabled flag: every reference to it, before and
\* after every step, shows the values its load gave it.
C13_FieldsFixedAfterLoad ==
    /\ []C13_GateOnly
    /\ [][C13_Kept]_vars

\* C13 witness: a plugin its load disabled was run by the client that holds
\* it, another plugin was loaded after that, and the registry still has the
\* first one, disabled.
C13_Witness ==
    \E p \in held :
        /\ ~p.enabled
        /\ \E k \in 1..Len(ran) : ran[k] = p
        /\ nextUid >= p.uid + 2
        /\ p.id \in DOMAIN plugins_
        /\ plugins_[p.id] = p

(***************************************************************************)
(* Properties of the errors of loads                                       *)
(***************************************************************************)

\* The errors of a load of one plugin from a bundle or from manifest text.
LoadErrors == LoadPluginErrors \cup {"ManifestNotFound"}

\* The step is a client's loadPluginFromString call.
DirectLoad == LoadStep /\ pc = "idle"

C14_DirectPropagates ==
    DirectLoad =>
        /\ callResult' = IF loadRes'.ok THEN "ok" ELSE loadRes'.error
        /\ ~loadRes'.ok => loadRes'.error \in LoadErrors
        /\ NewErrors = << >>

C14_BatchCatches ==
    /\ (pc = "loop" /\ pc' = "catch") =>
          /\ err' = loadRes'.error
          /\ callResult' = "pending"
    /\ (pc = "catch") =>
          /\ pc' = "loop"
          /\ callResult' = "pending"
          /\ NewErrors = << Error(err, pluginPaths[i]) >>
    /\ (pc # "idle" /\ pc' = "idle") => callResult' \notin LoadErrors

\* C14: the error of a failed loadPluginFromString call reaches its caller as
\* it is and nothing logs it as an error; the error of a failed load inside
\* loadAndRunPlugins goes to the catch block, which logs it with the
\* candidate's path and goes on, and loadAndRunPlugins never ends with a load
\* error.
C14_DirectThrowsBatchCatches ==
    [][C14_DirectPropagates /\ C14_BatchCatches]_vars

\* C14 witness: a batch caught a candidate's malformed manifest JSON and logged
\* the one error there is; after it a loadPluginFromString call failed with the
\* same error, which its caller got.
C14_Witness ==
    /\ pc = "idle"
    /\ callResult = "InvalidManifestJson"
    /\ Len(outcome) = 1
    /\ outcome[1].error = "InvalidManifestJson"
    /\ SelectSeq(log, LAMBDA e : e.level = "error")
         = << Error("InvalidManifestJson", outcome[1].path) >>

(***************************************************************************)
(* Properties of a rejected extraction                                     *)
(***************************************************************************)

\* The accumulator is empty at the end of the scan: the first opening line is
\* the last line, or the line after it is a closing line.
EmptyBlock(lines) ==
    /\ HasOpenLine(lines)
    /\ \/ FirstOpen(lines) = Len(lines)
       \/ IsCloseLine(lines, FirstOpen(lines) + 1)

\* C15: extraction is rejected with ManifestNotFound exactly when no line
\* trims to the opening marker, or the first opening line is the last line, or
\* the line after it starts with the closing marker; the scan ends at the
\* first closing line after the opening line: nothing behind it, a second
\* block included, changes the outcome or the manifest text.
C15_RejectedIffNothingAccumulated ==
    ExtractDone =>
        LET lines == BundleLines
        IN  /\ ManifestNotFound <=> (~HasOpenLine(lines) \/ EmptyBlock(lines))
            /\ ~ManifestNotFound => extracted.ok
            /\ (HasOpenLine(lines) /\ ~EmptyBlock(lines) /\ ClosedAfterOpen(lines)) =>
                  extracted.manifestText
                    = TrimmedBetween(lines, FirstOpen(lines) + 1, FirstClose(lines) - 1)

\* C15 witness: an empty block (opening line, closing line) followed by a
\* second block with an inner line: the extraction was rejected.
C15_Witness ==
    /\ ExtractDone
    /\ Len(BundleLines) = 5
    /\ IsOpenLine(BundleLines, 1)
    /\ IsCloseLine(BundleLines, 2)
    /\ IsOpenLine(BundleLines, 3)
    /\ ~IsOpenLine(BundleLines, 4) /\ ~IsCloseLine(BundleLines, 4)
    /\ IsCloseLine(BundleLines, 5)
    /\ ManifestNotFound

(***************************************************************************)
(* Properties of the directory layout                                      *)
(***************************************************************************)

\* The directory a directory candidate is read from: the directory itself if
\* it has a manifest.json, its dist subdirectory otherwise.
ChosenDir(path) ==
    IF Exists(Sub(RtrimSlashes(path), ManifestJson))
    THEN RtrimSlashes(path)
    ELSE Sub(RtrimSlashes(path), Dist)

\* The step is the loop's load of a directory candidate.
DirectoryLoad == LoadStep /\ pc = "loop" /\ ~IsJsFile(pluginPaths[i])

\* C16: the load of a directory candidate takes index.js and manifest.json
\* from one directory, the candidate itself if it has a manifest.json and its
\* dist subdirectory otherwise: if one of the two files is not in that
\* directory the load throws the file system's error, whatever the other
\* directory has; a plugin it returns has that directory as base directory,
\* that directory's index.js as script and that directory's manifest.
C16_OneDirectory ==
    [][DirectoryLoad =>
          LET dir == ChosenDir(pluginPaths[i])
          IN  IF Exists(Sub(dir, IndexJs)) /\ Exists(Sub(dir, ManifestJson))
              THEN /\ loadRes'.error # "FsError"
                   /\ loadRes'.ok =>
                        /\ loadRes'.plugin.baseDir = dir
                        /\ loadRes'.plugin.scriptText = ReadFile(Sub(dir, IndexJs)).data
                        /\ loadRes'.declared
                             = JsonParse(ReadFile(Sub(dir, ManifestJson)).data).value["app_min_version"]
                        /\ loadRes'.plugin.manifest["name"]
                             = JsonParse(ReadFile(Sub(dir, ManifestJson)).data).value["name"]
              ELSE /\ ~loadRes'.ok
                   /\ loadRes'.error = "FsError"
                   /\ pc' = "catch"
                   /\ err' = "FsError"]_vars

\* C16 witness: in a scan of the plugin directory the first candidate was
\* read from its own directory and run, and the load of the candidate with
\* manifest.json at its root and index.js only under dist threw the file
\* system's error.
C16_Witness ==
    /\ pc = "catch"
    /\ err = "FsError"
    /\ pluginPaths[i] = PathF
    /\ Exists(Sub(Sub(PathF, Dist), IndexJs))
    /\ ~Exists(Sub(PathF, IndexJs))
    /\ outcome[1].res = "ran"
    /\ ChosenDir(outcome[1].path) = outcome[1].path

(***************************************************************************)
(* Properties of the store and the registry                                *)
(***************************************************************************)

\* No loadPluginFromString call of a client has returned a plugin: every
\* plugin there is was loaded by a batch.
OnlyBatches == held = {}

\* The identifiers the store was told about.
Announced == {store[k].plugin.id : k \in 1..Len(store)}

\* No batch is under way, or the loop of the current one is over.
BetweenBatches == pc = "idle" \/ BatchOver

\* C17: as long as plugins are loaded by batches only, the store has at most
\* one PLUGIN_ADD action for an identifier, and between batches, and at the end
\* of each batch's loop, every identifier the store was told about is a key of
\* the registry.
C17_OneAddPerIdentifier ==
    OnlyBatches =>
        /\ \A j, k \in 1..Len(store) : store[j].plugin.id = store[k].plugin.id => j = k
        /\ \A k \in 1..Len(store) : store[k].type = "PLUGIN_ADD"
        /\ BetweenBatches => Announced \subseteq DOMAIN plugins_

\* C17 witness: the only candidate of a second batch had the identifier a
\* first batch announced and registered; it was rejected, and the store still
\* has the one action.
C17_Witness ==
    /\ OnlyBatches
    /\ BatchOver
    /\ Len(outcome) = 1
    /\ outcome[1].error = "DuplicateIdentifier"
    /\ Len(store) = 1
    /\ Announced \subseteq DOMAIN plugins_

(***************************************************************************)
(* Properties of disabled plugins and of failed runs in a batch            *)
(***************************************************************************)

\* The identifier is registered for a disabled plugin.
RegisteredDisabled(id) == id \in DOMAIN plugins_ /\ ~plugins_[id].enabled

C18_DisabledIsRun ==
    /\ (LoadStep /\ loadRes'.constructed /\ ~loadRes'.plugin.enabled) =>
          /\ loadRes'.ok
          /\ store' = store
    /\ (pc = "loaded" /\ ~loadRes.plugin.enabled) =>
          /\ pc' = "running"
          /\ store' = store
          /\ ran' = Append(ran, loadRes.plugin)
          /\ loadRes.plugin.id \in DOMAIN plugins_'
          /\ plugins_'[loadRes.plugin.id] = loadRes.plugin
    /\ (pc = "loaded" /\ loadRes.plugin.enabled) =>
          /\ pc' = "running"
          /\ ran' = Append(ran, loadRes.plugin)
          /\ plugins_'[loadRes.plugin.id] = loadRes.plugin

C18_DisabledBlocks ==
    (pc = "loop" /\ LoadStep) =>
        \E alone \in {LoadedAlone(pluginPaths[i])} :
            (alone.ok /\ RegisteredDisabled(alone.plugin.id)) =>
                /\ loadRes'.error = "DuplicateIdentifier"
                /\ pc' = "catch"

\* C18: in a batch, the load that disables a plugin dispatches nothing and
\* still returns it, and the loop's next step registers it and gives it to the
\* runner exactly as it does an enabled one; a later candidate that would load
\* under an identifier registered for a disabled plugin is rejected as a
\* duplicate.
C18_DisabledStillRegisteredAndRun ==
    [][C18_DisabledIsRun /\ C18_DisabledBlocks]_vars

\* C18 witness: the first candidate of a batch was disabled by the gate,
\* registered and run, the store heard of nothing, and the second candidate,
\* of the same identifier, was rejected as a duplicate.
C18_Witness ==
    /\ BatchOver
    /\ Len(outcome) = 2
    /\ outcome[1].res = "ran"
    /\ HandedOff(1)
    /\ ~ran[1].enabled
    /\ RegisteredDisabled(ran[1].id)
    /\ store = << >>
    /\ outcome[2].error = "DuplicateIdentifier"

\* The candidates of the current batch whose run failed.
RunFailures == {k \in 1..Len(outcome) : outcome[k].error = "RunError"}

\* The plugin that was loaded for the k-th candidate and given to the runner.
RanFor(k) == ran[CHOOSE j \in 1..Len(ran) : ran[j].uid = outcome[k].uid]

C19_AfterFailedRun ==
    \A k \in RunFailures :
        /\ outcome[k].res = "failed"
        /\ HandedOff(k)
        /\ RanFor(k).id \in DOMAIN plugins_
        /\ RanFor(k).enabled => RanFor(k).id \in Announced
        /\ \E n \in 1..Len(log) : log[n] = Error("RunError", outcome[k].path)

C19_FailedRunStep ==
    /\ (pc = "running" /\ ~RunnerRun(loadRes.plugin)) =>
          /\ pc' = "catch"
          /\ err' = "RunError"
          /\ plugins_' = plugins_
          /\ store' = store
    /\ (pc = "catch" /\ err = "RunError") =>
          /\ NewErrors = << Error("RunError", pluginPaths[i]) >>
          /\ plugins_' = plugins_
          /\ store' = store
          /\ pc' = "loop"
          /\ i' = i + 1
    /\ DOMAIN plugins_ \subseteq DOMAIN plugins_'
    /\ SubSeq(store', 1, Len(store)) = store

C19_FailedRunBlocks ==
    (pc = "loop" /\ LoadStep) =>
        \E alone \in {LoadedAlone(pluginPaths[i])} :
            (alone.ok /\ \E k \in RunFailures : RanFor(k).id = alone.plugin.id) =>
                loadRes'.error = "DuplicateIdentifier"

\* C19: when the runner's run of a candidate's plugin fails, the catch block
\* logs one error with the candidate's path and the loop goes on to the next
\* candidate; neither step changes the registry or the store, no step ever
\* removes a key of the registry or an action of the store: the plugin stays
\* registered and, if it was announced, announced; a later candidate of the
\* batch that would load under its identifier is rejected as a duplicate.
C19_FailedRunNotRolledBack ==
    /\ []C19_AfterFailedRun
    /\ [][C19_FailedRunStep /\ C19_FailedRunBlocks]_vars

\* C19 witness: the run of the first candidate's plugin, enabled and
\* announced, failed; it is still registered and announced, and the second
\* candidate, of the same identifier, was rejected as a duplicate.
C19_Witness ==
    /\ BatchOver
    /\ Len(outcome) = 2
    /\ outcome[1].error = "RunError"
    /\ RanFor(1).enabled
    /\ Announced = {RanFor(1).id}
    /\ plugins_[RanFor(1).id] = RanFor(1)
    /\ outcome[2].error = "DuplicateIdentifier"
    /\ Len(SelectSeq(log, LAMBDA e : e.level = "error")) = 2

=============================================================================
